---------------------------- MODULE Spec2Model ----------------------------
(* Model of qiskit/quantum_info/operators/tolerances.py:                   *)
(* the metaclass TolerancesMeta (the per-class tolerance store and its      *)
(* validated setters) and the class TolerancesMixin (read-only instance     *)
(* properties and the deprecated set_atol / set_rtol class methods).        *)
EXTENDS Integers, Sequences, FiniteSets, TLC

(***************************************************************************)
(* Bounds of the model.                                                    *)
(***************************************************************************)
\* number of instances that may be created
MaxInstances == 1
\* number of threads of the interleaved specification
NumThreads == 2

(***************************************************************************)
(* Floats.  A float is a record: either a number (val, in units of 1e-8)   *)
(* or NaN.  Ordered comparisons with NaN are false, as in Python.          *)
(***************************************************************************)
Num(n) == [nan |-> FALSE, val |-> n]
NaN == [nan |-> TRUE, val |-> 0]
FLt(a, b) == ~a.nan /\ ~b.nan /\ a.val < b.val
FGt(a, b) == ~a.nan /\ ~b.nan /\ a.val > b.val
FLe(a, b) == ~a.nan /\ ~b.nan /\ a.val <= b.val

\* predicates.ATOL_DEFAULT = 1e-8, predicates.RTOL_DEFAULT = 1e-5
ATOL_DEFAULT == 1
RTOL_DEFAULT == 1000
\* cls._MAX_TOL = 1e-4
MAX_TOL == 10000

\* the values callers pass to the setters
Values ==
    {Num(0 - 1), Num(0), Num(ATOL_DEFAULT + 1), Num(MAX_TOL),
     Num(MAX_TOL + 1), NaN}

Params == {"atol", "rtol"}

(***************************************************************************)
(* Classes and instances.                                                  *)
(***************************************************************************)
\* class TolerancesMixin, and a family derived from it
TolerancesMixin == "TolerancesMixin"
ClassIds == {TolerancesMixin, "Derived"}
InstanceIds == 1 .. MaxInstances
ThreadIds == 1 .. NumThreads

\* a dictionary without entries (a class or an instance __dict__)
EmptyDict == [n \in {} |-> NaN]

\* setattr on a dictionary
SetAttr(d, name, v) ==
    [n \in (DOMAIN d) \cup {name} |-> IF n = name THEN v ELSE d[n]]

VARIABLES
    defined,    \* the classes created so far (metaclass TolerancesMeta)
    base,       \* base[c]: the class c derives from
    cdict,      \* cdict[c]: the __dict__ of class c (the tolerance store)
    instances,  \* the instances created so far
    class,      \* class[i]: i.__class__
    idict,      \* idict[i]: the __dict__ of instance i
    last,       \* the last call and what it returned, raised and warned
    touched,    \* history: classes whose tolerance a setter has stored
    tpc,        \* tpc[t]: where thread t is in its setter call
    tcall,      \* tcall[t]: the call thread t makes
    stores      \* history: the store steps of the threads, in order

vars == <<defined, base, cdict, instances, class, idict, last, touched,
          tpc, tcall, stores>>

(***************************************************************************)
(* TolerancesMeta                                                          *)
(***************************************************************************)
\* Attribute lookup on a class: its own __dict__, then its bases.
\* The last case is the AttributeError of a name no class of the chain holds.
RECURSIVE Lookup(_, _, _, _)
Lookup(cd, bs, c, name) ==
    IF name \in DOMAIN cd[c] THEN cd[c][name]
    ELSE IF c = TolerancesMixin THEN NaN
    ELSE Lookup(cd, bs, bs[c], name)

\* TolerancesMeta.__init__, the class __dict__ it leaves
MetaInit_NoOwnStore(cd, bs, c, b) ==
    IF c = TolerancesMixin
    THEN SetAttr(SetAttr(SetAttr(EmptyDict, "_ATOL_DEFAULT", Num(ATOL_DEFAULT)),
                         "_RTOL_DEFAULT", Num(RTOL_DEFAULT)),
                 "_MAX_TOL", Num(MAX_TOL))
    ELSE EmptyDict

MetaInit_CopyBase(cd, bs, c, b) ==
    SetAttr(SetAttr(SetAttr(EmptyDict, "_ATOL_DEFAULT",
                            Lookup(cd, bs, b, "_ATOL_DEFAULT")),
                    "_RTOL_DEFAULT", Lookup(cd, bs, b, "_RTOL_DEFAULT")),
            "_MAX_TOL", Num(MAX_TOL))

MetaInit(cd, bs, c, b) ==
    SetAttr(SetAttr(SetAttr(EmptyDict, "_ATOL_DEFAULT", Num(ATOL_DEFAULT)),
                    "_RTOL_DEFAULT", Num(RTOL_DEFAULT)),
            "_MAX_TOL", Num(MAX_TOL))

\* TolerancesMeta.atol (getter)
atol(cd, bs, c) == Lookup(cd, bs, c, "_ATOL_DEFAULT")

\* TolerancesMeta.rtol (getter)
rtol(cd, bs, c) == Lookup(cd, bs, c, "_RTOL_DEFAULT")

\* TolerancesMeta._check_value: "ok" or the exception raised
check_value_NoUpper(cd, bs, c, value) ==
    IF FLt(value, Num(0)) THEN "QiskitError" ELSE "ok"

check_value(cd, bs, c, value) ==
    IF FLt(value, Num(0)) THEN "QiskitError"
    ELSE IF FGt(value, Lookup(cd, bs, c, "_MAX_TOL")) THEN "QiskitError"
    ELSE "ok"

\* TolerancesMeta.atol (setter): the class dictionaries and the outcome
atol_setter_NoStore(cd, bs, c, value) ==
    [dict |-> cd, result |-> check_value(cd, bs, c, value)]

atol_setter_Shared(cd, bs, c, value) ==
    LET r == check_value(cd, bs, c, value) IN
    IF r # "ok" THEN [dict |-> cd, result |-> r]
    ELSE [dict |-> [k \in DOMAIN cd |->
                       IF k = c \/ cd[k] # EmptyDict
                       THEN SetAttr(cd[k], "_ATOL_DEFAULT", value) ELSE cd[k]],
          result |-> "ok"]

atol_setter(cd, bs, c, value) ==
    LET r == check_value(cd, bs, c, value) IN
    IF r # "ok" THEN [dict |-> cd, result |-> r]
    ELSE [dict |-> [cd EXCEPT ![c] = SetAttr(@, "_ATOL_DEFAULT", value)],
          result |-> "ok"]

\* TolerancesMeta.rtol (setter)
rtol_setter(cd, bs, c, value) ==
    LET r == check_value(cd, bs, c, value) IN
    IF r # "ok" THEN [dict |-> cd, result |-> r]
    ELSE [dict |-> [cd EXCEPT ![c] = SetAttr(@, "_RTOL_DEFAULT", value)],
          result |-> "ok"]

\* Cls.<p> and Cls.<p> = value, by parameter name
ClassGet(cd, bs, c, p) == IF p = "atol" THEN atol(cd, bs, c) ELSE rtol(cd, bs, c)
ClassSet(cd, bs, c, p, value) ==
    IF p = "atol" THEN atol_setter(cd, bs, c, value)
    ELSE rtol_setter(cd, bs, c, value)

(***************************************************************************)
(* TolerancesMixin                                                         *)
(***************************************************************************)
\* cls.__name__
ClassName(c) == c

\* the names TolerancesMixin defines as properties without a setter
MixinProperty_None(p) == FALSE

MixinProperty(p) == p \in {"atol", "rtol"}

\* instance.<p>: a property of the type comes before the instance __dict__
InstanceGet(cd, bs, cl, idt, i, p) ==
    IF MixinProperty(p) THEN ClassGet(cd, bs, cl[i], p)
    ELSE IF p \in DOMAIN idt[i] THEN idt[i][p]
    ELSE ClassGet(cd, bs, cl[i], p)

\* the warning warnings.warn receives
Deprecation(c, method) ==
    [category |-> "DeprecationWarning", name |-> ClassName(c), method |-> method]

\* TolerancesMixin.set_atol: warn, then cls.atol = value
set_atol_NoWarn(cd, bs, c, value) ==
    LET r == atol_setter(cd, bs, c, value) IN
    [dict |-> r.dict, result |-> r.result, warned |-> <<>>]

set_atol(cd, bs, c, value) ==
    LET r == atol_setter(cd, bs, c, value) IN
    [dict |-> r.dict, result |-> r.result,
     warned |-> <<Deprecation(c, "set_atol")>>]

\* TolerancesMixin.set_rtol: warn, then cls.rtol = value
set_rtol_ToAtol(cd, bs, c, value) ==
    LET r == atol_setter(cd, bs, c, value) IN
    [dict |-> r.dict, result |-> r.result,
     warned |-> <<Deprecation(c, "set_rtol")>>]

set_rtol(cd, bs, c, value) ==
    LET r == rtol_setter(cd, bs, c, value) IN
    [dict |-> r.dict, result |-> r.result,
     warned |-> <<Deprecation(c, "set_rtol")>>]

(***************************************************************************)
(* The sequential specification: every call runs to completion.            *)
(***************************************************************************)
Call(op, c, i, p, v, result, warned) ==
    [op |-> op, cls |-> c, inst |-> i, param |-> p, value |-> v,
     result |-> result, warned |-> warned]

NoCall == [cls |-> TolerancesMixin, param |-> "none", value |-> NaN]

ThreadsIdle ==
    /\ tpc = [t \in ThreadIds |-> "idle"]
    /\ tcall = [t \in ThreadIds |-> NoCall]
    /\ stores = <<>>

\* the module has been imported: class TolerancesMixin exists
Init ==
    /\ defined = {TolerancesMixin}
    /\ base = [c \in ClassIds |-> TolerancesMixin]
    /\ cdict = [c \in ClassIds |->
                  IF c = TolerancesMixin
                  THEN MetaInit([k \in ClassIds |-> EmptyDict],
                                [k \in ClassIds |-> TolerancesMixin],
                                TolerancesMixin, TolerancesMixin)
                  ELSE EmptyDict]
    /\ instances = {}
    /\ class = [i \in InstanceIds |-> TolerancesMixin]
    /\ idict = [i \in InstanceIds |-> EmptyDict]
    /\ last = Call("import", TolerancesMixin, 0, "none", NaN, "ok", <<>>)
    /\ touched = {}
    /\ ThreadsIdle

\* class c(b): ...   (the metaclass __init__ runs on the new class)
DefineClass(c, b) ==
    /\ c \notin defined
    /\ b \in defined
    /\ defined' = defined \cup {c}
    /\ base' = [base EXCEPT ![c] = b]
    /\ cdict' = [cdict EXCEPT ![c] = MetaInit(cdict, base', c, b)]
    /\ last' = Call("define", c, 0, "none", NaN, "ok", <<>>)
    /\ UNCHANGED <<instances, class, idict, touched, tpc, tcall, stores>>

\* i = c()
NewInstance(i, c) ==
    /\ i \notin instances
    /\ i = 1 \/ i - 1 \in instances
    /\ c \in defined
    /\ instances' = instances \cup {i}
    /\ class' = [class EXCEPT ![i] = c]
    /\ last' = Call("new", c, i, "none", NaN, "ok", <<>>)
    /\ UNCHANGED <<defined, base, cdict, idict, touched, tpc, tcall, stores>>

Touch(c, result) == IF result = "ok" THEN touched \cup {c} ELSE touched

\* c.atol = v
ClassSetAtol(c, v) ==
    /\ c \in defined
    /\ LET r == atol_setter(cdict, base, c, v) IN
         /\ cdict' = r.dict
         /\ last' = Call("class_set", c, 0, "atol", v, r.result, <<>>)
         /\ touched' = Touch(c, r.result)
    /\ UNCHANGED <<defined, base, instances, class, idict, tpc, tcall, stores>>

\* c.rtol = v
ClassSetRtol(c, v) ==
    /\ c \in defined
    /\ LET r == rtol_setter(cdict, base, c, v) IN
         /\ cdict' = r.dict
         /\ last' = Call("class_set", c, 0, "rtol", v, r.result, <<>>)
         /\ touched' = Touch(c, r.result)
    /\ UNCHANGED <<defined, base, instances, class, idict, tpc, tcall, stores>>

\* i.set_atol(v)
DeprecatedSetAtol(i, v) ==
    /\ i \in instances
    /\ LET r == set_atol(cdict, base, class[i], v) IN
         /\ cdict' = r.dict
         /\ last' = Call("deprecated_set", class[i], i, "atol", v,
                         r.result, r.warned)
         /\ touched' = Touch(class[i], r.result)
    /\ UNCHANGED <<defined, base, instances, class, idict, tpc, tcall, stores>>

\* i.set_rtol(v)
DeprecatedSetRtol(i, v) ==
    /\ i \in instances
    /\ LET r == set_rtol(cdict, base, class[i], v) IN
         /\ cdict' = r.dict
         /\ last' = Call("deprecated_set", class[i], i, "rtol", v,
                         r.result, r.warned)
         /\ touched' = Touch(class[i], r.result)
    /\ UNCHANGED <<defined, base, instances, class, idict, tpc, tcall, stores>>

\* i.<p> = v: a property without a setter raises AttributeError; any other
\* name is stored in the instance __dict__
InstanceAssign(i, p, v) ==
    /\ i \in instances
    /\ IF MixinProperty(p)
       THEN /\ idict' = idict
            /\ last' = Call("instance_assign", class[i], i, p, v,
                            "AttributeError", <<>>)
       ELSE /\ idict' = [idict EXCEPT ![i] = SetAttr(@, p, v)]
            /\ last' = Call("instance_assign", class[i], i, p, v, "ok", <<>>)
    /\ UNCHANGED <<defined, base, cdict, instances, class, touched,
                   tpc, tcall, stores>>

Next ==
    \/ \E c \in ClassIds, b \in ClassIds : DefineClass(c, b)
    \/ \E i \in InstanceIds, c \in ClassIds : NewInstance(i, c)
    \/ \E c \in ClassIds, v \in Values : ClassSetAtol(c, v)
    \/ \E c \in ClassIds, v \in Values : ClassSetRtol(c, v)
    \/ \E i \in InstanceIds, v \in Values : DeprecatedSetAtol(i, v)
    \/ \E i \in InstanceIds, v \in Values : DeprecatedSetRtol(i, v)
    \/ \E i \in InstanceIds, p \in Params, v \in Values : InstanceAssign(i, p, v)

Spec == Init /\ [][Next]_vars

(***************************************************************************)
(* The interleaved specification: threads call the setters of               *)
(* TolerancesMeta; a call is the _check_value step, then the store step.    *)
(***************************************************************************)
\* both classes exist and hold what TolerancesMeta.__init__ gave them
InitThreads ==
    /\ defined = ClassIds
    /\ base = [c \in ClassIds |-> TolerancesMixin]
    /\ cdict = [c \in ClassIds |->
                  MetaInit([k \in ClassIds |-> EmptyDict],
                           [k \in ClassIds |-> TolerancesMixin],
                           c, TolerancesMixin)]
    /\ instances = {}
    /\ class = [i \in InstanceIds |-> TolerancesMixin]
    /\ idict = [i \in InstanceIds |-> EmptyDict]
    /\ last = Call("import", TolerancesMixin, 0, "none", NaN, "ok", <<>>)
    /\ touched = {}
    /\ ThreadsIdle

seq_vars == <<defined, base, instances, class, idict, last, touched>>

\* thread t enters c.<p> = v
ThreadCall(t, c, p, v) ==
    /\ tpc[t] = "idle"
    /\ c \in defined
    /\ tpc' = [tpc EXCEPT ![t] = "check"]
    /\ tcall' = [tcall EXCEPT ![t] = [cls |-> c, param |-> p, value |-> v]]
    /\ UNCHANGED <<seq_vars, cdict, stores>>

\* cls._check_value(value, ...) of thread t
ThreadCheck(t) ==
    /\ tpc[t] = "check"
    /\ tpc' = [tpc EXCEPT ![t] =
                 IF check_value(cdict, base, tcall[t].cls, tcall[t].value) = "ok"
                 THEN "store" ELSE "raised"]
    /\ UNCHANGED <<seq_vars, cdict, tcall, stores>>

\* cls._ATOL_DEFAULT = value of thread t
ThreadStoreAtol(t) ==
    /\ tpc[t] = "store"
    /\ tcall[t].param = "atol"
    /\ cdict' = [cdict EXCEPT ![tcall[t].cls] =
                    SetAttr(@, "_ATOL_DEFAULT", tcall[t].value)]
    /\ stores' = Append(stores, tcall[t])
    /\ tpc' = [tpc EXCEPT ![t] = "done"]
    /\ UNCHANGED <<seq_vars, tcall>>

\* cls._RTOL_DEFAULT = value of thread t
ThreadStoreRtol(t) ==
    /\ tpc[t] = "store"
    /\ tcall[t].param = "rtol"
    /\ cdict' = [cdict EXCEPT ![tcall[t].cls] =
                    SetAttr(@, "_RTOL_DEFAULT", tcall[t].value)]
    /\ stores' = Append(stores, tcall[t])
    /\ tpc' = [tpc EXCEPT ![t] = "done"]
    /\ UNCHANGED <<seq_vars, tcall>>

NextThreads ==
    \/ \E t \in ThreadIds, c \in ClassIds, p \in Params, v \in Values :
          ThreadCall(t, c, p, v)
    \/ \E t \in ThreadIds : ThreadCheck(t)
    \/ \E t \in ThreadIds : ThreadStoreAtol(t)
    \/ \E t \in ThreadIds : ThreadStoreRtol(t)

SpecThreads == InitThreads /\ [][NextThreads]_vars

(***************************************************************************)
(* Properties.                                                             *)
(***************************************************************************)
\* 0 <= v <= 1e-4
InRange(v) == FLe(Num(0), v) /\ FLe(v, Num(MAX_TOL))
\* v < 0 or v > 1e-4
OutOfRange(v) == FLt(v, Num(0)) \/ FGt(v, Num(MAX_TOL))
\* the library-wide default of a parameter
Default(p) == IF p = "atol" THEN Num(ATOL_DEFAULT) ELSE Num(RTOL_DEFAULT)
\* what instance i reads as i.<p> in the current state
Reads(i, p) == InstanceGet(cdict, base, class, idict, i, p)
\* what class c returns as c.<p> in the current state
Stored(c, p) == ClassGet(cdict, base, c, p)

\* C1: an assignment F.p = v with 0 <= v <= 1e-4 succeeds; afterwards F.p
\* returns v and every instance of F reads v (the assignment creates no
\* instance, so these are the instances that existed before it).
C1_ValidAssignmentTakesEffect ==
    (last.op = "class_set" /\ InRange(last.value)) =>
        /\ last.result = "ok"
        /\ Stored(last.cls, last.param) = last.value
        /\ \A i \in instances :
              class[i] = last.cls => Reads(i, last.param) = last.value

C1_Witness ==
    /\ last.op = "class_set"
    /\ last.param = "atol"
    /\ last.value = Num(MAX_TOL)
    /\ \E i \in instances : class[i] = last.cls

\* C2: an assignment F.p = v with v < 0 or v > 1e-4 raises QiskitError and
\* leaves every class dictionary as it was, so F.p reads as before.
C2_InvalidAssignmentRaises ==
    [][(last'.op = "class_set" /\ OutOfRange(last'.value)) =>
          /\ last'.result = "QiskitError"
          /\ ClassGet(cdict', base', last'.cls, last'.param)
                = ClassGet(cdict, base, last'.cls, last'.param)
          /\ cdict' = cdict]_vars

C2_Witness ==
    /\ last.op = "class_set"
    /\ last.value = Num(MAX_TOL + 1)
    /\ last.result = "QiskitError"
    /\ Stored(last.cls, last.param) = Num(0)

\* C3: in every reachable state the atol and the rtol of every class are
\* within 0 .. 1e-4.
C3_RangeInvariant ==
    \A c \in defined, p \in Params : InRange(Stored(c, p))

\* C4: a set operation on parameter p of class F, by assignment or by the
\* deprecated method, successful or not, leaves every other parameter of
\* every class, every other class dictionary and every _MAX_TOL unchanged.
C4_SetChangesOnlyItsTarget ==
    [][last'.op \in {"class_set", "deprecated_set"} =>
          /\ \A c \in defined, p \in Params :
                (c # last'.cls \/ p # last'.param) =>
                   ClassGet(cdict', base', c, p) = ClassGet(cdict, base, c, p)
          /\ \A c \in defined :
                /\ Lookup(cdict', base', c, "_MAX_TOL")
                      = Lookup(cdict, base, c, "_MAX_TOL")
                /\ c # last'.cls => cdict'[c] = cdict[c]]_vars

C4_Witness ==
    /\ last.op \in {"class_set", "deprecated_set"}
    /\ last.param = "atol"
    /\ last.result = "ok"
    /\ \E c \in defined :
          /\ c # last.cls
          /\ c \in touched
          /\ Stored(c, "atol") # last.value
          /\ Stored(c, "atol") # Default("atol")

\* C5: i.set_atol(v) / i.set_rtol(v) with 0 <= v <= 1e-4 gives exactly one
\* DeprecationWarning, naming the class of i, and afterwards i reads v.
C5_DeprecatedSetWarnsOnceAndSets ==
    (last.op = "deprecated_set" /\ InRange(last.value)) =>
        /\ Len(last.warned) = 1
        /\ last.warned[1].category = "DeprecationWarning"
        /\ last.warned[1].name = ClassName(class[last.inst])
        /\ last.warned[1].method = "set_" \o last.param
        /\ last.result = "ok"
        /\ Reads(last.inst, last.param) = last.value

C5_Witness ==
    /\ last.op = "deprecated_set"
    /\ last.param = "atol"
    /\ last.value = Num(0)
    /\ class[last.inst] = "Derived"

\* C6: from any state and for any value, i.set_<p>(v) ends in the class
\* dictionaries and with the outcome that type(i).<p> = v has from that
\* state: both succeed, or both raise QiskitError and i.<p> reads as before;
\* nothing else but the warning differs.
C6_DeprecatedEqualsAssignment ==
    [][last'.op = "deprecated_set" =>
          LET r == ClassSet(cdict, base, last'.cls, last'.param, last'.value) IN
          /\ last'.cls = class[last'.inst]
          /\ cdict' = r.dict
          /\ last'.result = r.result
          /\ last'.result \in {"ok", "QiskitError"}
          /\ last'.result = "QiskitError" =>
                InstanceGet(cdict', base', class', idict', last'.inst, last'.param)
                   = Reads(last'.inst, last'.param)
          /\ UNCHANGED <<defined, base, instances, class, idict>>]_vars

C6_Witness ==
    /\ last.op = "deprecated_set"
    /\ last.param = "rtol"
    /\ last.result = "ok"
    /\ last.value = Num(MAX_TOL)
    /\ Stored(last.cls, "atol") # last.value

\* C7: i.atol = v and i.rtol = v raise AttributeError for every v and change
\* no class or instance dictionary; no instance ever holds a value of its
\* own, and i.<p> is always what type(i).<p> is.
C7_InstancePropertiesReadOnly ==
    [][/\ last'.op = "instance_assign" =>
             /\ last'.result = "AttributeError"
             /\ cdict' = cdict
             /\ idict' = idict
       /\ \A i \in instances', p \in Params :
             /\ p \notin DOMAIN idict'[i]
             /\ InstanceGet(cdict', base', class', idict', i, p)
                   = ClassGet(cdict', base', class'[i], p)]_vars

C7_Witness ==
    /\ last.op = "instance_assign"
    /\ last.param = "atol"
    /\ InRange(last.value)
    /\ Reads(last.inst, "atol") # last.value

\* d is derived from b
RECURSIVE Descends(_, _)
Descends(d, b) ==
    /\ d # TolerancesMixin
    /\ d \in defined
    /\ (base[d] = b \/ Descends(base[d], b))

\* C8 as stated: after B.p = v succeeds, the instances of a class derived
\* from B that never set its own tolerance read v.
C8_DerivedInheritsFromBase ==
    (last.op = "class_set" /\ last.result = "ok") =>
        \A d \in defined \ touched, i \in instances :
           (Descends(d, last.cls) /\ class[i] = d) =>
              Reads(i, last.param) = last.value

\* C8 amended: a class derived from B holds its own store from its
\* definition on; after B.p = v succeeds, the instances of a derived class
\* that never set its own tolerance still read the library default.
C8_DerivedKeepsOwnStore ==
    (last.op = "class_set" /\ last.result = "ok") =>
        \A d \in defined \ touched, i \in instances :
           (Descends(d, last.cls) /\ class[i] = d) =>
              /\ {"_ATOL_DEFAULT", "_RTOL_DEFAULT"} \subseteq DOMAIN cdict[d]
              /\ Reads(i, last.param) = Default(last.param)

C8_Witness ==
    /\ last.op = "class_set"
    /\ last.result = "ok"
    /\ last.value # Default(last.param)
    /\ \E d \in defined \ touched, i \in instances :
          Descends(d, last.cls) /\ class[i] = d

\* C9: right after a class is defined its own dictionary holds atol = the
\* default absolute tolerance and rtol = the default relative tolerance,
\* whatever has been set on other classes, its base included.
C9_NewClassStartsAtDefaults ==
    last.op = "define" =>
        /\ {"_ATOL_DEFAULT", "_RTOL_DEFAULT"} \subseteq DOMAIN cdict[last.cls]
        /\ Stored(last.cls, "atol") = Num(ATOL_DEFAULT)
        /\ Stored(last.cls, "rtol") = Num(RTOL_DEFAULT)

C9_Witness ==
    /\ last.op = "define"
    /\ base[last.cls] \in touched
    /\ Stored(base[last.cls], "atol") # Num(ATOL_DEFAULT)
    /\ Stored(base[last.cls], "rtol") # Num(RTOL_DEFAULT)

\* the threads that have passed _check_value for parameter p of class c
Validated(c, p) ==
    {t \in ThreadIds : /\ tpc[t] \in {"store", "done"}
                       /\ tcall[t].cls = c /\ tcall[t].param = p}
\* the store steps on parameter p of class c, in order
StoresOn(c, p) ==
    SelectSeq(stores, LAMBDA w : w.cls = c /\ w.param = p)
AllFinished == \A t \in ThreadIds : tpc[t] \in {"done", "raised"}

\* the stored value is the one before the calls or a proposed value that
\* passed validation
C10_StoredWasValidated ==
    \A c \in ClassIds, p \in Params :
       \/ Stored(c, p) = Default(p)
       \/ \E t \in Validated(c, p) : Stored(c, p) = tcall[t].value
\* no value with v < 0 or v > 1e-4 is ever stored
C10_InvalidNeverStored ==
    \A k \in 1 .. Len(stores) : ~OutOfRange(stores[k].value)
\* once every call has finished the stored value is the last one written
C10_LastWriteWins ==
    AllFinished =>
       \A c \in ClassIds, p \in Params :
          LET w == StoresOn(c, p) IN
          IF w = <<>> THEN Stored(c, p) = Default(p)
          ELSE Stored(c, p) = w[Len(w)].value

\* C10: under any interleaving of the check and store steps of concurrent
\* setter calls, the stored value is always the value before the calls or
\* a proposed value that passed validation, no invalid value is stored, the
\* range 0 .. 1e-4 is kept, and when all calls have finished the stored
\* value is the one the last store step wrote.
C10_InterleavedSetters ==
    /\ C10_StoredWasValidated
    /\ C10_InvalidNeverStored
    /\ \A c \in ClassIds, p \in Params : InRange(Stored(c, p))
    /\ C10_LastWriteWins

=============================================================================
